---- MODULE Spec2Model ----
(***************************************************************************)
(* Model of the playlist streaming engine of hackfm.py (stereo engine):    *)
(* playlist_file_source (open_current_file, next_file, work, stop) and     *)
(* PlaybackController (pause, seek, next/previous, mode, update_position). *)
(*                                                                         *)
(* Units: time in whole seconds, file positions in bytes, samples are      *)
(* signed 16-bit integers, a stereo frame is two samples (4 bytes).        *)
(***************************************************************************)
EXTENDS Integers, Sequences, FiniteSets, TLC

\* ------------------------------------------------------------------ bounds
MaxFrames == 3          \* largest block length n_out requested from work()
MaxTime == 4            \* the wall clock stops advancing here
MaxCursor == 1800000    \* seeks that would move the byte cursor past this are not issued
MaxOpens == 4           \* the open log records the first MaxOpens opened tracks
MaxOverrun == 1         \* next_track is not issued with the cursor this far past the end
chunk_size == 2         \* frames per sub-read (constructor argument, 4096 by default)

\* ------------------------------------------------------- program constants
HeaderSize == 44                \* WAV header bytes skipped by seek(44)
bytes_per_second == 176400      \* 44100 * 2 * 2
TargetRate == 44100
TargetChannels == 2
FullScale == 32767
HeadroomNum == 98               \* target_headroom = 0.98 = 98/100
HeadroomDen == 100
RestartThreshold == 3           \* previous_track restarts after 3 seconds
Stale == 3 * FullScale          \* content of an output slot work() has not written

\* --------------------------------------------------------------- the files
\* The music directory holds some of the files of this library.  ext is what
\* follows the last dot of the name, as written on disk ("" when the name has no
\* dot).  hdr = <<>> is a header wave.open cannot parse.  converted is what ffmpeg
\* writes for the file (44100 Hz, 2 channels, 16 bit); ffmpeg_ok = FALSE is a
\* non-zero exit.  dir is where the file is: 0 the music directory itself, 1 its
\* sub-directory "live", 2 its sub-directory "old".
Library ==
  <<[name |-> "a.wav", dir |-> 0, ext |-> "wav",  hdr |-> <<44100, 2, 2>>,
     payload |-> <<1000, -2000, 32767, -32768, 7>>,
     converted |-> <<>>, ffmpeg_ok |-> TRUE],
    [name |-> "b.mp3", dir |-> 0, ext |-> "mp3",  hdr |-> <<>>,
     payload |-> <<>>,
     converted |-> <<100, -300>>, ffmpeg_ok |-> TRUE],
    [name |-> "c.wav", dir |-> 0, ext |-> "wav",  hdr |-> <<44100, 2, 2>>,
     payload |-> <<>>,
     converted |-> <<>>, ffmpeg_ok |-> TRUE],
    [name |-> "d.flac", dir |-> 0, ext |-> "flac", hdr |-> <<>>,
     payload |-> <<>>,
     converted |-> <<>>, ffmpeg_ok |-> FALSE],
    [name |-> "e.wav", dir |-> 0, ext |-> "wav",  hdr |-> <<44100, 2, 1>>,
     payload |-> <<0, 0, -32768, -32768>>,
     converted |-> <<>>, ffmpeg_ok |-> TRUE],
    [name |-> "f.WAV", dir |-> 0, ext |-> "WAV",  hdr |-> <<44100, 2, 2>>,
     payload |-> <<5, -5>>,
     converted |-> <<>>, ffmpeg_ok |-> TRUE],
    [name |-> "g.Ogg", dir |-> 0, ext |-> "Ogg",  hdr |-> <<>>,
     payload |-> <<>>,
     converted |-> <<9, 9>>, ffmpeg_ok |-> TRUE],
    [name |-> "notes.txt", dir |-> 0, ext |-> "txt", hdr |-> <<>>,
     payload |-> <<>>,
     converted |-> <<>>, ffmpeg_ok |-> FALSE],
    [name |-> "wav", dir |-> 0, ext |-> "",     hdr |-> <<44100, 2, 2>>,
     payload |-> <<1, 1>>,
     converted |-> <<>>, ffmpeg_ok |-> TRUE],
    [name |-> "live/h.mp3", dir |-> 1, ext |-> "mp3", hdr |-> <<>>,
     payload |-> <<>>,
     converted |-> <<3, 4>>, ffmpeg_ok |-> TRUE],
    [name |-> "old/i.wav", dir |-> 2, ext |-> "wav", hdr |-> <<44100, 2, 2>>,
     payload |-> <<8, -8>>,
     converted |-> <<>>, ffmpeg_ok |-> TRUE],
    [name |-> "j.wav", dir |-> 0, ext |-> "wav", hdr |-> <<22050, 2, 2>>,
     payload |-> <<6, 6>>,
     converted |-> <<6, 6, 6, 6>>, ffmpeg_ok |-> TRUE],
    [name |-> "k.wav", dir |-> 0, ext |-> "wav", hdr |-> <<44100, 1, 2>>,
     payload |-> <<4, 2>>,
     converted |-> <<4, 4, 2, 2>>, ffmpeg_ok |-> TRUE],
    [name |-> "l.wav", dir |-> 0, ext |-> "wav", hdr |-> <<>>,
     payload |-> <<>>,
     converted |-> <<2, 2>>, ffmpeg_ok |-> TRUE],
    [name |-> "m.wav", dir |-> 0, ext |-> "wav", hdr |-> <<44100, 2, 2>>,
     payload |-> <<100, -32768, 20000, -20000>>,
     converted |-> <<>>, ffmpeg_ok |-> TRUE],
    [name |-> "n.wav", dir |-> 0, ext |-> "wav", hdr |-> <<44100, 2, 2>>,
     payload |-> <<50, -32768>>,
     converted |-> <<>>, ffmpeg_ok |-> TRUE]>>

FileIds == 1..Len(Library)

\* str.lower() on the extensions of the library
Lower(e) == CASE e = "WAV" -> "wav"
              [] e = "Ogg" -> "ogg"
              [] OTHER -> e

\* (mutant) the extension is compared as written
HasValidExtension_CaseSensitive(t) == Library[t].ext \in {"wav", "mp3", "flac", "ogg"}

\* file.lower().endswith(valid_extensions)
HasValidExtension(t) == Lower(Library[t].ext) \in {"wav", "mp3", "flac", "ogg"}

\* not fname.lower().endswith(('.mp3', '.flac', '.ogg')), for a catalog file
IsWavName(t) == Lower(Library[t].ext) = "wav"

\* A path is an original file or the temp artifact transcoded from it.
NoPath == [kind |-> "none", track |-> 0]
OrigPath(t) == [kind |-> "orig", track |-> t]
TempPath(t) == [kind |-> "temp", track |-> t]

\* A temp artifact left in the scratch directory that current_file_path no
\* longer names (the stale artifacts of one file are not told apart)
StaleTemp(t) == [kind |-> "stale", track |-> t]

PathHdr(p) == IF p.kind = "temp" THEN <<TargetRate, TargetChannels, 2>>
              ELSE Library[p.track].hdr

PathPayload(p) == IF p.kind = "temp" THEN Library[p.track].converted
                  ELSE Library[p.track].payload

\* ---------------------------------------------------------------- helpers
Min(a, b) == IF a < b THEN a ELSE b
Max(a, b) == IF a > b THEN a ELSE b

\* np.abs on an int16 array: -32768 has no positive counterpart and wraps
Abs16(s) == IF s = -32768 THEN -32768 ELSE IF s < 0 THEN -s ELSE s

RECURSIVE SeqMaxAbs16(_)
SeqMaxAbs16(ss) == IF ss = <<>> THEN -32768
                   ELSE Max(Abs16(Head(ss)), SeqMaxAbs16(Tail(ss)))

\* The files of a directory in enumeration order (sorted names)
RECURSIVE SortedSeq(_)
SortedSeq(S) == IF S = {} THEN <<>>
                ELSE LET m == CHOOSE x \in S : \A y \in S : x <= y
                     IN <<m>> \o SortedSeq(S \ {m})

Perms(s) == {p \in [1..Len(s) -> {s[i] : i \in 1..Len(s)}] :
               \A i, j \in 1..Len(s) : i # j => p[i] # p[j]}


\* ------------------------------------------------------------------- state
VARIABLES
  dir_files,          \* the files under dir_path (a set of file ids)
  \* playlist_file_source
  file_list,          \* catalog, a sequence of file ids
  repeat,             \* repeat flag (fixed at construction)
  shuffle,            \* shuffle flag
  played_indices,     \* _played_indices: [defined, set]; the attribute exists only
                      \* when the engine was constructed with shuffle=True
  current_file_idx,   \* playlist cursor (0-based)
  current_file,       \* file handle: [open, path, pos]; open = FALSE is None
  current_file_path,  \* path of the stream last opened
  current_gain,       \* gain as a fraction [num, den]
  temp_files,         \* temp artifacts present in the scratch directory: TempPath(t)
                      \* is the one current_file_path names, StaleTemp(t) the others
  \* PlaybackController
  play_mode, paused, seek_offset, current_file_pos, last_update_time,
  \* wall clock
  now,
  \* pc: "new" before the engine is constructed and "failed" when its constructor
  \* raised; then the work() call in progress ("loop"), returned ("done") or ended
  \* by an exception ("crashed"); block length, frames produced, buffers
  pc, n_out, produced, out_l, out_r, ret,
  \* history
  lastOp,             \* the operation that acted last, with the cursor it started from
  openLog,            \* the <<cursor, file>> of the first MaxOpens successful opens,
                      \* kept until an operation changes the track or the mode by hand
  failed,             \* ffmpeg has exited non-zero for a track since construction
  unpaused_time,      \* wall-clock seconds spent with paused = FALSE since construction
  open_handles,       \* number of file objects the source opened for current_file
                      \* that are open
  \* DisplayManager
  running,            \* the flag both loops test
  display_pc,         \* where _display_loop is: "test" (at while self.running),
                      \* "body", "sleep", "done" (returned)
  input_pc,           \* where _input_loop is: "test", "poll", "sleep", "done"
  seek_owed           \* history, kept where the two threads run statement by
                      \* statement: seconds of seek accepted by the input thread
                      \* that update_position has not applied to the byte cursor

vars == <<dir_files, file_list, repeat, shuffle, played_indices, current_file_idx, current_file,
          current_file_path, current_gain, temp_files, play_mode, paused, seek_offset,
          current_file_pos, last_update_time, now, pc, n_out, produced, out_l, out_r,
          ret, lastOp, openLog, failed, unpaused_time, open_handles, running, display_pc,
          input_pc, seek_owed>>

srcVars == <<file_list, shuffle, played_indices, current_file_idx, current_file,
             current_file_path, current_gain, temp_files, openLog, failed, open_handles>>
dmVars == <<running, display_pc, input_pc, seek_owed>>
ctlVars == <<play_mode, paused, seek_offset, current_file_pos, last_update_time>>
workVars == <<pc, n_out, produced, out_l, out_r, ret>>

NoneFile == [open |-> FALSE, path |-> NoPath, pos |-> 0]

\* The source object as a value, so that its methods compose
Src == [file_list |-> file_list, repeat |-> repeat, shuffle |-> shuffle,
        played |-> played_indices, idx |-> current_file_idx, file |-> current_file,
        path |-> current_file_path, gain |-> current_gain, temp |-> temp_files,
        log |-> openLog, failed |-> failed, handles |-> open_handles, err |-> "none"]

Install(s) ==
  /\ file_list' = s.file_list
  /\ shuffle' = s.shuffle
  /\ played_indices' = s.played
  /\ current_file_idx' = s.idx
  /\ current_file' = s.file
  /\ current_file_path' = s.path
  /\ current_gain' = s.gain
  /\ temp_files' = s.temp
  /\ openLog' = s.log
  /\ failed' = s.failed
  /\ open_handles' = s.handles

\* ---------------------------------------------------- playlist_file_source
\* (mutant) only the sample rate of the header is looked at
NeedsConversion_RateOnly(t) ==
  \/ ~IsWavName(t)
  \/ Library[t].hdr = <<>>
  \/ Library[t].hdr[1] # TargetRate

\* _get_wav_info / _needs_conversion: a probe failure gives sr = ch = None
NeedsConversion(t) ==
  \/ ~IsWavName(t)
  \/ Library[t].hdr = <<>>
  \/ Library[t].hdr[1] # TargetRate
  \/ Library[t].hdr[2] # TargetChannels

\* open_current_file: the stream a file is read from
StreamPath(t) == IF NeedsConversion(t) THEN TempPath(t) ELSE OrigPath(t)

\* _wav_max_abs: 32767 for an unsupported width or an unreadable header,
\* otherwise the running maximum of np.abs(buffer).max(), starting from 0
WavMaxAbs(p) ==
  LET h == PathHdr(p)
  IN IF h = <<>> THEN FullScale
     ELSE IF h[3] # 2 THEN FullScale
     ELSE Max(0, SeqMaxAbs16(PathPayload(p)))

\* (mutant) the gain without the cap at 2.0
GainFor_NoCap(max_abs) ==
  IF max_abs = 0 THEN [num |-> 1, den |-> 1]
  ELSE [num |-> HeadroomNum * FullScale, den |-> HeadroomDen * max_abs]

\* current_gain from max_abs, capped at 2.0
GainFor(max_abs) ==
  LET g == IF max_abs = 0 THEN [num |-> 1, den |-> 1]
           ELSE [num |-> HeadroomNum * FullScale, den |-> HeadroomDen * max_abs]
  IN IF g.num > 2 * g.den THEN [num |-> 2, den |-> 1] ELSE g

\* (mutant) os.remove succeeds on a file that is still open
CanRemove_Always(s) == TRUE

\* os.remove(current_file_path) on the platform the program runs on (it imports
\* msvcrt, the Windows console module): removing a file the process still holds
\* open raises PermissionError there
CanRemove(s) == ~(s.file.open /\ s.file.path = s.path)

\* (mutant) a file object that is no longer referenced stays open
ReleaseHandle_Leak(f, n) == n

\* self.current_file is bound to another value (line 969, lines 1005 and 1021):
\* no statement closes the file object it held; the object loses its only
\* reference and the reference counting of the interpreter closes it there
ReleaseHandle(f, n) == IF f.open THEN n - 1 ELSE n

\* _cleanup_old_temp: a failing os.remove is swallowed
CleanupOldTemp(s) ==
  IF s.path.kind = "temp" /\ s.path \in s.temp /\ CanRemove(s)
  THEN [s EXCEPT !.temp = @ \ {s.path}]
  ELSE s

\* the scratch directory once current_file_path is about to name another file:
\* an artifact that was not removed stays behind
Orphaned(s) ==
  IF s.path.kind = "temp" /\ s.path \in s.temp
  THEN (s.temp \ {s.path}) \cup {StaleTemp(s.path.track)}
  ELSE s.temp

LogOff == [on |-> FALSE, seq |-> <<>>]

LogOpen(log, idx, t) ==
  IF log.on /\ Len(log.seq) < MaxOpens
  THEN [log EXCEPT !.seq = Append(@, <<idx, t>>)]
  ELSE log

\* open_current_file after its call of _cleanup_old_temp(), from the read of
\* file_list[current_file_idx] on; _make_temp_wav raises when ffmpeg exits
\* non-zero
OpenStream(s1) ==
  LET real == s1.file_list[s1.idx + 1]
      opened(path, temp) ==
        [s1 EXCEPT !.path = path, !.temp = temp,
                   !.file = [open |-> TRUE, path |-> path, pos |-> HeaderSize],
                   !.handles = ReleaseHandle(s1.file, @ + 1),
                   !.gain = GainFor(WavMaxAbs(path)),
                   !.log = LogOpen(@, s1.idx, real)]
  IN IF NeedsConversion(real)
     THEN IF Library[real].ffmpeg_ok
          THEN opened(TempPath(real), Orphaned(s1) \cup {TempPath(real)})
          ELSE [s1 EXCEPT !.err = "ffmpeg", !.failed = TRUE]
     ELSE opened(OrigPath(real), Orphaned(s1))

\* open_current_file
OpenCurrentFile(s) == OpenStream(CleanupOldTemp(s))

\* next_file, non-repeat exhaustion: current_file = None, then _cleanup_old_temp
Drain(s) ==
  CleanupOldTemp([s EXCEPT !.file = NoneFile, !.handles = ReleaseHandle(s.file, @)])

\* (mutant) the cursor wraps to 0 whatever the repeat flag
SequentialIndex_AlwaysWrap(idx, n, rep) == IF idx + 1 >= n THEN 0 ELSE idx + 1

\* (mutant) the cursor never wraps
SequentialIndex_NeverWrap(idx, n, rep) == idx + 1

\* next_file, sequential branch: the cursor after the increment (len when drained)
SequentialIndex(idx, n, rep) ==
  IF idx + 1 >= n THEN (IF rep THEN 0 ELSE idx + 1) ELSE idx + 1

SequentialNext(s) ==
  LET n == Len(s.file_list)
      i == SequentialIndex(s.idx, n, s.repeat)
  IN IF i >= n THEN Drain([s EXCEPT !.idx = i])
     ELSE OpenCurrentFile([s EXCEPT !.idx = i])

\* next_file, shuffle branch: every outcome of random.shuffle / random.choice.
\* Reading _played_indices raises AttributeError when it was never created.
ShuffleNext(s) ==
  LET n == Len(s.file_list)
      full == Cardinality(s.played.set) >= n
      cleared == [s EXCEPT !.played.set = {}]
      pickFrom(s1) ==
        {OpenCurrentFile([s1 EXCEPT !.idx = i, !.played.set = @ \cup {i}]) :
           i \in {j \in 0..(n - 1) : j \notin s1.played.set}}
  IN IF ~s.played.defined THEN {[s EXCEPT !.err = "attr"]}
     ELSE IF full /\ ~s.repeat THEN {Drain(cleared)}
     ELSE IF full
          THEN UNION {pickFrom([cleared EXCEPT !.file_list = p]) : p \in Perms(s.file_list)}
          ELSE pickFrom(s)

\* next_file: the set of states it can leave the source in
NextFile(s) == IF s.shuffle THEN ShuffleNext(s) ELSE {SequentialNext(s)}


\* -------------------------------------------------------------------- work
\* The 44 header bytes of a stream read as int16 samples (the first one, "RI" of
\* "RIFF", stands for all 22 of them)
HeaderWord == 18770

\* the whole file as int16 words: the header, then the payload
FileWords(p) == [i \in 1..(HeaderSize \div 2) |-> HeaderWord] \o PathPayload(p)

\* file.read(2 * count bytes) at the cursor: the samples it returns
ReadSamples(f, count) ==
  LET data == FileWords(f.path)
      start == f.pos \div 2
      avail == Max(0, Len(data) - start)
      k == Min(count, avail)
  IN SubSeq(data, start + 1, start + k)

\* <<quotient, remainder>> of s * num by den for s >= 0, without forming s * num
RECURSIVE MulDiv(_, _, _)
MulDiv(s, num, den) ==
  IF s = 0 THEN <<0, 0>>
  ELSE CHOOSE qr \in {<<2 * h[1] + (2 * h[2] + (s % 2) * num) \div den,
                         (2 * h[2] + (s % 2) * num) % den>> :
                         h \in {MulDiv(s \div 2, num, den)}} : TRUE

\* (mutant) the product is clipped to the whole int16 range
ApplyGain_ClipInt16(s, g) ==
  LET q == MulDiv(IF s < 0 THEN -s ELSE s, g.num, g.den)[1]
      v == IF s < 0 THEN -q ELSE q
  IN IF v > FullScale THEN FullScale ELSE IF v < -FullScale - 1 THEN -FullScale - 1 ELSE v

\* astype(float32) * gain, np.clip(-32767, 32767), astype(int16): the product is
\* taken as a real number and truncated toward zero
ApplyGain(s, g) ==
  LET q == MulDiv(IF s < 0 THEN -s ELSE s, g.num, g.den)[1]
      v == IF s < 0 THEN -q ELSE q
  IN IF v > FullScale THEN FullScale ELSE IF v < -FullScale THEN -FullScale ELSE v

\* out[produced:] = 0
ZeroFrom(out, k) == [i \in 1..Len(out) |-> IF i > k THEN 0 ELSE out[i]]

\* (mutant) the frames of a round are written from the start of the block
WriteFrames_AtStart(out, k, samples, frame_count, g, ch) ==
  [i \in 1..Len(out) |->
     IF i <= frame_count
     THEN ApplyGain(samples[2 * (i - 1) + ch], g)
     ELSE out[i]]

\* out[produced:produced+frame_count] = int_samples[:, ch]   (ch = 1 left, 2 right)
WriteFrames(out, k, samples, frame_count, g, ch) ==
  [i \in 1..Len(out) |->
     IF i > k /\ i <= k + frame_count
     THEN ApplyGain(samples[2 * (i - k - 1) + ch], g)
     ELSE out[i]]

\* what is recorded of an operation: its name; for next_track and previous_track
\* the playlist cursor and the side of the 3 second mark it started from; for the
\* seek operations their argument; for update_position and next_track the pending
\* seek and the byte cursor they started from; and whether the operation raised
Op(op) == [op |-> op, idx |-> 0, late |-> FALSE, arg |-> 0, cur |-> 0, err |-> "none",
          io |-> "ok"]

Snap(op) ==
  [Op(op) EXCEPT !.idx = current_file_idx,
                 !.late = current_file_pos > RestartThreshold]

\* work() is entered with a block of n frames to fill
WorkBegin(n) ==
  /\ pc = "idle"
  /\ pc' = "loop"
  /\ n_out' = n
  /\ produced' = 0
  /\ out_l' = [i \in 1..n |-> Stale]
  /\ out_r' = [i \in 1..n |-> Stale]
  /\ ret' = -1
  /\ lastOp' = Op("work")
  /\ UNCHANGED <<srcVars, ctlVars, repeat, dir_files, dmVars, now, unpaused_time>>

\* return produced, the rest of the block zeroed
WorkSilence(k, l, r) ==
  /\ out_l' = ZeroFrom(l, k)
  /\ out_r' = ZeroFrom(r, k)
  /\ produced' = k
  /\ ret' = k
  /\ pc' = "done"

\* the loop goes on while produced < n_out, else work returns produced
WorkContinue(k, l, r) ==
  /\ produced' = k /\ out_l' = l /\ out_r' = r
  /\ IF k < n_out THEN pc' = "loop" /\ UNCHANGED ret
                  ELSE pc' = "done" /\ ret' = k

\* next_file() inside work on source state s0: it raises (the exception leaves
\* work and ends the block's thread), or work returns silence, or the loop goes on
WorkAdvance(s0, k, l, r) ==
  \E s \in NextFile(s0) :
    /\ Install(s)
    /\ lastOp' = [lastOp EXCEPT !.err = s.err]
    /\ IF s.err # "none"
       THEN /\ pc' = "crashed"
            /\ produced' = k /\ out_l' = l /\ out_r' = r
            /\ UNCHANGED ret
       ELSE IF ~s.file.open
       THEN WorkSilence(k, l, r)
       ELSE WorkContinue(k, l, r)

\* (mutant) work() does not look at the pause flag
ControllerPaused_Ignored == FALSE

\* hasattr(self, 'controller') and self.controller and self.controller.paused:
\* FM_console attaches the controller before the flowgraph starts
ControllerPaused == paused

\* one round of the while loop of work()
WorkLoop ==
  /\ pc = "loop"
  /\ UNCHANGED <<ctlVars, repeat, dir_files, dmVars, now, unpaused_time, n_out>>
  /\ IF ~current_file.open \/ ControllerPaused
     THEN /\ WorkSilence(produced, out_l, out_r)
          /\ UNCHANGED <<srcVars, lastOp>>
     ELSE LET to_read_frames == Min(n_out - produced, chunk_size)
              samples == ReadSamples(current_file, to_read_frames * 2)
              frame_count == Len(samples) \div 2
              k == produced + frame_count
              l == WriteFrames(out_l, produced, samples, frame_count, current_gain, 1)
              r == WriteFrames(out_r, produced, samples, frame_count, current_gain, 2)
              f == [current_file EXCEPT !.pos = @ + 2 * Len(samples)]
          IN IF Len(samples) = 0
             THEN WorkAdvance(Src, produced, out_l, out_r)
             ELSE IF frame_count < to_read_frames
             THEN WorkAdvance([Src EXCEPT !.file = f], k, l, r)
             ELSE /\ current_file' = f
                  /\ WorkContinue(k, l, r)
                  /\ UNCHANGED <<file_list, shuffle, played_indices, current_file_idx,
                                 current_file_path, current_gain, temp_files, openLog,
                                 failed, open_handles, lastOp>>

\* the caller takes the block work() returned
WorkDeliver ==
  /\ pc = "done"
  /\ pc' = "idle"
  /\ n_out' = 0
  /\ produced' = 0
  /\ out_l' = <<>>
  /\ out_r' = <<>>
  /\ ret' = -1
  /\ UNCHANGED <<srcVars, ctlVars, repeat, dir_files, dmVars, now, unpaused_time, lastOp>>

\* stop(): close the handle, then _cleanup_old_temp.  The scheduler calls it
\* when the flowgraph is stopped, not inside a work() call.
Stop ==
  /\ pc \in {"idle", "crashed"}
  /\ Install(CleanupOldTemp(
               [Src EXCEPT !.file = NoneFile, !.log = LogOff,
                           !.handles = IF current_file.open THEN @ - 1 ELSE @]))
  /\ lastOp' = Op("stop")
  /\ UNCHANGED <<ctlVars, repeat, dir_files, dmVars, now, unpaused_time, workVars>>

\* ------------------------------------------------------ PlaybackController
\* The methods are lower-case (toggle_pause, next_track, ...); the capitalised
\* actions are the methods called between work() calls (and after the block's
\* thread has ended).
CtlReady == pc \in {"idle", "crashed"}

set_play_mode(key) ==
  /\ play_mode' = (CASE key = "1" -> "SEQUENTIAL"
                     [] key = "2" -> "SHUFFLE"
                     [] key = "3" -> "REPEAT_ONE")
  /\ shuffle' = (play_mode' = "SHUFFLE")
  /\ lastOp' = Op("set_play_mode")
  /\ openLog' = LogOff
  /\ UNCHANGED <<file_list, played_indices, current_file_idx, current_file,
                 current_file_path, current_gain, temp_files, failed, open_handles, paused,
                 seek_offset, current_file_pos, last_update_time, repeat, dir_files, now, unpaused_time, workVars>>

SetPlayMode(key) == CtlReady /\ set_play_mode(key) /\ UNCHANGED dmVars

toggle_pause ==
  /\ paused' = ~paused
  /\ lastOp' = Op("toggle_pause")
  /\ UNCHANGED <<srcVars, play_mode, seek_offset, current_file_pos, last_update_time,
                 repeat, dir_files, now, unpaused_time, workVars>>

TogglePause == CtlReady /\ toggle_pause /\ UNCHANGED dmVars

\* seeks the model issues: the pending offset stays within reach of MaxCursor
SeekInRange(off) ==
  /\ off * bytes_per_second <= MaxCursor
  /\ -(off * bytes_per_second) <= MaxCursor
  /\ current_file.pos + off * bytes_per_second <= MaxCursor

seek_forward(seconds) ==
  /\ SeekInRange(seek_offset + seconds)
  /\ seek_offset' = seek_offset + seconds
  /\ lastOp' = [Op("seek_forward") EXCEPT !.arg = seconds]
  /\ UNCHANGED <<srcVars, play_mode, paused, current_file_pos, last_update_time,
                 repeat, dir_files, now, unpaused_time, workVars>>

SeekForward(seconds) == CtlReady /\ seek_forward(seconds) /\ UNCHANGED dmVars

seek_backward(seconds) ==
  /\ SeekInRange(seek_offset - seconds)
  /\ seek_offset' = (IF seek_offset - seconds < 0 THEN 0 ELSE seek_offset - seconds)
  /\ lastOp' = [Op("seek_backward") EXCEPT !.arg = seconds]
  /\ UNCHANGED <<srcVars, play_mode, paused, current_file_pos, last_update_time,
                 repeat, dir_files, now, unpaused_time, workVars>>

SeekBackward(seconds) == CtlReady /\ seek_backward(seconds) /\ UNCHANGED dmVars

\* (mutant) next_track leaves the elapsed time and the pending seek alone
next_track_NoReset ==
  /\ current_file_idx < Len(file_list) + MaxOverrun
  /\ \E s \in NextFile([Src EXCEPT !.log = LogOff]) :
       /\ Install(s)
       /\ lastOp' = [Snap("next_track") EXCEPT !.err = s.err, !.arg = seek_offset,
                                               !.cur = current_file.pos]
  /\ UNCHANGED <<seek_offset, current_file_pos>>
  /\ UNCHANGED <<play_mode, paused, last_update_time, repeat, dir_files, now, unpaused_time, workVars>>

\* next_file() called by the controller: when it raises, the statements after
\* the call are skipped and the caller (the input loop) swallows the exception
next_track ==
  /\ current_file_idx < Len(file_list) + MaxOverrun
  /\ \E s \in NextFile([Src EXCEPT !.log = LogOff]) :
       /\ Install(s)
       /\ lastOp' = [Snap("next_track") EXCEPT !.err = s.err, !.arg = seek_offset,
                                               !.cur = current_file.pos]
       /\ IF s.err = "none"
          THEN seek_offset' = 0 /\ current_file_pos' = 0
          ELSE UNCHANGED <<seek_offset, current_file_pos>>
  /\ UNCHANGED <<play_mode, paused, last_update_time, repeat, dir_files, now, unpaused_time, workVars>>

NextTrack == CtlReady /\ next_track /\ UNCHANGED dmVars

\* previous_track, the cursor before next_file() is called
PreviousIndex(idx, n) == IF idx - 2 < -1 THEN n - 2 ELSE idx - 2

previous_track ==
  /\ IF current_file_pos > RestartThreshold
     THEN /\ seek_offset' = 0
          /\ current_file_pos' = 0
          /\ lastOp' = Snap("previous_track")
          /\ openLog' = LogOff
          /\ UNCHANGED <<file_list, shuffle, played_indices, current_file_idx,
                         current_file, current_file_path, current_gain, temp_files,
                         failed, open_handles>>
     ELSE \E s \in NextFile([Src EXCEPT
                               !.log = LogOff,
                               !.idx = PreviousIndex(current_file_idx, Len(file_list))]) :
            /\ Install(s)
            /\ lastOp' = [Snap("previous_track") EXCEPT !.err = s.err]
            /\ IF s.err = "none"
               THEN seek_offset' = 0 /\ current_file_pos' = 0
               ELSE UNCHANGED <<seek_offset, current_file_pos>>
  /\ UNCHANGED <<play_mode, paused, last_update_time, repeat, dir_files, now, unpaused_time, workVars>>

PreviousTrack == CtlReady /\ previous_track /\ UNCHANGED dmVars

\* (mutant) the offset is applied from the header, not from the cursor
SeekTarget_FromHeader(current_pos, offset) ==
  LET target_pos == HeaderSize + offset * bytes_per_second
  IN IF target_pos >= HeaderSize THEN target_pos ELSE HeaderSize

\* (mutant) the target position is not floored at the header
SeekTarget_NoFloor(current_pos, offset) == current_pos + offset * bytes_per_second

\* update_position, the byte cursor after a pending seek of offset seconds
SeekTarget(current_pos, offset) ==
  LET target_pos == current_pos + offset * bytes_per_second
  IN IF target_pos >= HeaderSize THEN target_pos ELSE HeaderSize

\* get_current_info, the position that is formatted as mm:ss
ReportedPosition(elapsed, pending) ==
  LET position == elapsed + pending
  IN IF position < 0 THEN 0 ELSE position

\* (mutant) the pending seek is cleared whether or not the file was repositioned
SeekConsumed_Always(seek_ok, offset) == 0

\* update_position, seek_offset after the try block: self.seek_offset = 0 is the
\* last statement of the try, an exception of tell() or seek() skips it
SeekConsumed(seek_ok, offset) == IF seek_ok THEN 0 ELSE offset

\* update_position; seek_ok = FALSE is tell() or seek() raising (an I/O error
\* of the file system), which the except clause swallows
update_position_io(seek_ok) ==
  /\ IF ~paused
     THEN /\ current_file_pos' = current_file_pos + (now - last_update_time)
          /\ last_update_time' = now
     ELSE UNCHANGED <<current_file_pos, last_update_time>>
  /\ IF seek_offset # 0 /\ current_file.open
     THEN /\ current_file' = (IF seek_ok
                              THEN [current_file EXCEPT !.pos = SeekTarget(@, seek_offset)]
                              ELSE current_file)
          /\ seek_offset' = SeekConsumed(seek_ok, seek_offset)
          /\ lastOp' = [Op("update_position") EXCEPT
                          !.arg = seek_offset, !.cur = current_file.pos,
                          !.io = (IF seek_ok THEN "ok" ELSE "failed")]
     ELSE /\ UNCHANGED <<current_file, seek_offset>>
          /\ lastOp' = [Op("update_position") EXCEPT
                          !.arg = seek_offset, !.cur = current_file.pos]
  /\ UNCHANGED <<file_list, shuffle, played_indices, current_file_idx, current_file_path,
                 current_gain, temp_files, openLog, failed, open_handles, play_mode, paused, repeat, dir_files,
                 now, unpaused_time, workVars>>

\* update_position on a file system whose reads and seeks succeed
update_position == update_position_io(TRUE)

UpdatePosition == CtlReady /\ update_position /\ UNCHANGED dmVars

UpdatePositionIO ==
  /\ CtlReady
  /\ \E seek_ok \in BOOLEAN : update_position_io(seek_ok)
  /\ UNCHANGED dmVars

\* the wall clock advances
Tick(dt) ==
  /\ now + dt <= MaxTime
  /\ now' = now + dt
  /\ unpaused_time' = unpaused_time + (IF paused THEN 0 ELSE dt)
  /\ UNCHANGED <<srcVars, ctlVars, repeat, dir_files, dmVars, workVars, lastOp>>

\* ------------------------------------------------------------ construction
\* the sub-directories of the music directory that hold a file
SubDirs(S) == {Library[t].dir : t \in S} \ {0}

\* os.walk hands the directories over one after the other; of each, the files
\* with a valid extension are appended in sorted order
RECURSIVE WalkDirs(_, _)
WalkDirs(S, ds) ==
  IF ds = <<>> THEN <<>>
  ELSE SortedSeq({t \in S : Library[t].dir = Head(ds) /\ HasValidExtension(t)})
         \o WalkDirs(S, Tail(ds))

\* the orders os.walk can visit the tree in: the music directory first, then
\* its sub-directories in the order the file system reports them (dirs is not
\* sorted)
WalkOrders(S) == {<<0>> \o p : p \in Perms(SortedSeq(SubDirs(S)))}

\* _find_audio_files under one visiting order
FindAudioFiles(S, walk) == WalkDirs(S, walk)

\* the music directories played
Directories == {{1}, {5}, {1, 2}, {1, 2, 3}, {2, 4}}

\* playlist_file_source.__init__ followed by PlaybackController.__init__; a
\* constructor that raises (first track not transcodable) builds no engine
Constructed(dir, rep, shuf, order) ==
  OpenCurrentFile(
    [file_list |-> order, repeat |-> rep, shuffle |-> shuf,
     played |-> [defined |-> shuf, set |-> {}], idx |-> 0, file |-> NoneFile,
     path |-> NoPath, gain |-> [num |-> 1, den |-> 1], temp |-> {},
     log |-> [on |-> TRUE, seq |-> <<>>], failed |-> FALSE, handles |-> 0,
     err |-> "none"])

InitOn(dirs) ==
  \E dir \in dirs, rep \in BOOLEAN, shuf \in BOOLEAN :
    \E walk \in WalkOrders(dir) :
    \E order \in (IF shuf THEN Perms(FindAudioFiles(dir, walk))
                  ELSE {FindAudioFiles(dir, walk)}) :
      LET s == Constructed(dir, rep, shuf, order)
      IN /\ s.err = "none"
         /\ dir_files = dir
         /\ file_list = s.file_list
         /\ repeat = rep
         /\ shuffle = s.shuffle
         /\ played_indices = s.played
         /\ current_file_idx = s.idx
         /\ current_file = s.file
         /\ current_file_path = s.path
         /\ current_gain = s.gain
         /\ temp_files = s.temp
         /\ openLog = s.log
         /\ failed = s.failed
         /\ open_handles = s.handles
         /\ play_mode = "SEQUENTIAL"
         /\ paused = FALSE
         /\ seek_offset = 0
         /\ current_file_pos = 0
         /\ last_update_time = 0
         /\ now = 0
         /\ unpaused_time = 0
         /\ pc = "idle"
         /\ n_out = 0
         /\ produced = 0
         /\ out_l = <<>>
         /\ out_r = <<>>
         /\ ret = -1
         /\ lastOp = Op("init")
         /\ running = TRUE
         /\ display_pc = "test"
         /\ input_pc = "test"
         /\ seek_owed = 0

Init == InitOn(Directories)

\* playlist_file_source(dir_path, repeat, shuffle) as an operation: the scratch
\* directory is cleared, then the catalog is enumerated (RuntimeError when it is
\* empty), shuffled when asked, and its first file opened
Construct(rep, shuf) ==
  /\ pc = "new"
  /\ repeat' = rep
  /\ \E walk \in WalkOrders(dir_files) :
     LET files == FindAudioFiles(dir_files, walk)
     IN IF files = <<>>
        THEN /\ temp_files' = {}
             /\ pc' = "failed"
             /\ lastOp' = [Op("init") EXCEPT !.err = "empty"]
             /\ UNCHANGED <<file_list, shuffle, played_indices, current_file_idx,
                            current_file, current_file_path, current_gain, openLog,
                            failed, open_handles>>
        ELSE \E order \in (IF shuf THEN Perms(files) ELSE {files}) :
               LET s == Constructed(dir_files, rep, shuf, order)
               IN /\ Install(s)
                  /\ pc' = (IF s.err = "none" THEN "idle" ELSE "failed")
                  /\ lastOp' = [Op("init") EXCEPT !.err = s.err]
  /\ UNCHANGED <<dir_files, dmVars, ctlVars, now, unpaused_time, n_out, produced, out_l, out_r,
                 ret>>

\* the music directories the engine is constructed on, and what an earlier run
\* may have left in the scratch directory
BuildDirectories ==
  {S \in SUBSET {1, 4, 5, 6, 7, 8, 9, 10, 11, 12, 13, 14} : Cardinality(S) <= 3}

InitBuild ==
  /\ dir_files \in BuildDirectories
  /\ temp_files \in {{}, {StaleTemp(2)}}
  /\ pc = "new"
  /\ file_list = <<>>
  /\ repeat = FALSE
  /\ shuffle = FALSE
  /\ played_indices = [defined |-> FALSE, set |-> {}]
  /\ current_file_idx = 0
  /\ current_file = NoneFile
  /\ current_file_path = NoPath
  /\ current_gain = [num |-> 1, den |-> 1]
  /\ openLog = [on |-> TRUE, seq |-> <<>>]
  /\ failed = FALSE
  /\ open_handles = 0
  /\ play_mode = "SEQUENTIAL"
  /\ paused = FALSE
  /\ seek_offset = 0
  /\ current_file_pos = 0
  /\ last_update_time = 0
  /\ now = 0
  /\ unpaused_time = 0
  /\ n_out = 0
  /\ produced = 0
  /\ out_l = <<>>
  /\ out_r = <<>>
  /\ ret = -1
  /\ lastOp = Op("new")
  /\ running = TRUE
  /\ display_pc = "test"
  /\ input_pc = "test"
  /\ seek_owed = 0

NextBuild == \E rep \in BOOLEAN, shuf \in BOOLEAN : Construct(rep, shuf)

SpecBuild == InitBuild /\ [][NextBuild]_vars

SeekArgs == {-10, 10}
TickSteps == {4}

\* work() as the scheduler calls it
Work ==
  \/ \E n \in 1..MaxFrames : WorkBegin(n)
  \/ WorkLoop
  \/ WorkDeliver

\* Playback without seeking: the pending seek stays 0
Next ==
  \/ Work
  \/ \E key \in {"1", "2", "3"} : SetPlayMode(key)
  \/ TogglePause
  \/ NextTrack
  \/ PreviousTrack
  \/ UpdatePosition
  \/ \E dt \in TickSteps : Tick(dt)

Spec == Init /\ [][Next]_vars

\* Seeking, on a two-file catalog played in order
InitSeek == Init /\ file_list = <<1, 2>> /\ ~shuffle

NextSeek ==
  \/ Work
  \/ \E seconds \in SeekArgs : SeekForward(seconds)
  \/ \E seconds \in SeekArgs : SeekBackward(seconds)
  \/ TogglePause
  \/ NextTrack
  \/ PreviousTrack
  \/ UpdatePosition
  \/ \E dt \in TickSteps : Tick(dt)

SpecSeek == InitSeek /\ [][NextSeek]_vars

\* Seeking on a file system where repositioning the open file can fail
InitIO == Init /\ file_list = <<1, 2>> /\ ~shuffle /\ repeat

NextIO ==
  \/ Work
  \/ \E seconds \in SeekArgs : SeekForward(seconds)
  \/ \E seconds \in SeekArgs : SeekBackward(seconds)
  \/ NextTrack
  \/ UpdatePositionIO
  \/ \E dt \in TickSteps : Tick(dt)

SpecIO == InitIO /\ [][NextIO]_vars

\* Streaming of single tracks that hold the extreme samples, under gains from
\* 0.98 to 2.0
GainDirectories == {{1}, {5}, {15}, {16}}

InitGain == InitOn(GainDirectories) /\ ~shuffle

NextGain ==
  \/ Work
  \/ TogglePause

SpecGain == InitGain /\ [][NextGain]_vars

\* Catalogs with a track that has no frames after its header
EmptyDirectories == {{3}, {1, 3}, {2, 3}}

InitEmpty == InitOn(EmptyDirectories) /\ ~shuffle

NextEmpty ==
  \/ Work
  \/ NextTrack

SpecEmpty == InitEmpty /\ [][NextEmpty]_vars

\* the scheduler thread keeps running a work() call it has entered
SpecEmptyFair == SpecEmpty /\ WF_vars(WorkLoop)

\* Track changes and teardown, on a catalog with a file that is transcoded
InitStop == Init /\ file_list \in {<<1, 2>>, <<2>>} /\ ~shuffle

NextStop ==
  \/ Work
  \/ NextTrack
  \/ PreviousTrack
  \/ Stop

SpecStop == InitStop /\ [][NextStop]_vars

\* The elapsed-time clock of the controller: pause, resume and the periodic
\* update_position at arbitrary clock times, on one track that is not streamed
InitClock == Init /\ file_list = <<1>> /\ ~shuffle /\ repeat

ClockSteps == {1, 2}

NextClock ==
  \/ TogglePause
  \/ UpdatePosition
  \/ \E dt \in ClockSteps : Tick(dt)

SpecClock == InitClock /\ [][NextClock]_vars

\* next_track() on the input thread, statement by statement, while the
\* scheduler thread is inside work(): nothing serialises the two, so a round of
\* the loop of work() can run between any two statements of open_current_file.
\* input_pc = "opened" is after self.current_file = open(...), "seeked" after
\* self.current_file.seek(44).
InitInstall == InitOn({{1, 2}}) /\ ~shuffle /\ repeat

\* next_file up to self.current_file = open(self.current_file_path, 'rb'): the
\* new handle is at byte 0 and current_gain is still that of the track before
NextTrackOpen ==
  /\ input_pc = "test"
  /\ \E s \in NextFile([Src EXCEPT !.log = LogOff]) :
       /\ s.err = "none"
       /\ s.file.open
       /\ Install([s EXCEPT !.file.pos = 0, !.gain = current_gain])
  /\ input_pc' = "opened"
  /\ lastOp' = Snap("next_track")
  /\ UNCHANGED <<ctlVars, repeat, dir_files, now, unpaused_time, workVars, running, seek_owed,
                 display_pc>>

\* self.current_file.seek(44)
NextTrackSeek ==
  /\ input_pc = "opened"
  /\ current_file.open
  /\ current_file' = [current_file EXCEPT !.pos = HeaderSize]
  /\ input_pc' = "seeked"
  /\ UNCHANGED <<file_list, shuffle, played_indices, current_file_idx, current_file_path,
                 current_gain, temp_files, openLog, failed, open_handles, ctlVars, repeat, dir_files,
                 now, unpaused_time, workVars, lastOp, running, seek_owed, display_pc>>

\* max_abs = self._wav_max_abs(self.current_file_path) and the assignment of
\* current_gain; then next_track clears the pending seek and the elapsed time
NextTrackGain ==
  /\ input_pc = "seeked"
  /\ current_gain' = GainFor(WavMaxAbs(current_file_path))
  /\ seek_offset' = 0
  /\ current_file_pos' = 0
  /\ input_pc' = "test"
  /\ UNCHANGED <<file_list, shuffle, played_indices, current_file_idx, current_file,
                 current_file_path, temp_files, openLog, failed, open_handles, play_mode, paused,
                 last_update_time, repeat, dir_files, now, unpaused_time, workVars,
                 lastOp, running, seek_owed, display_pc>>

NextInstall ==
  \/ Work
  \/ NextTrackOpen
  \/ NextTrackSeek
  \/ NextTrackGain

SpecInstall == InitInstall /\ [][NextInstall]_vars

\* seek_forward() / seek_backward() on the input thread while the display
\* thread is inside update_position(), statement by statement: display_pc =
\* "applied" is after the seek of the file (lines 130-134) and before
\* self.seek_offset = 0 (line 136).
InitSeekRace == InitOn({{1, 2}}) /\ ~shuffle /\ repeat

\* the input thread accepts a seek of 10 seconds
RaceSeekForward ==
  /\ seek_forward(10)
  /\ seek_owed' = seek_owed + (seek_offset' - seek_offset)
  /\ UNCHANGED <<running, display_pc, input_pc>>

RaceSeekBackward ==
  /\ seek_backward(10)
  /\ seek_owed' = seek_owed + (seek_offset' - seek_offset)
  /\ UNCHANGED <<running, display_pc, input_pc>>

\* update_position up to the seek of the file: the elapsed time is integrated,
\* seek_offset is read and the byte cursor moved by it
UpdatePositionApply ==
  /\ display_pc = "test"
  /\ IF ~paused
     THEN /\ current_file_pos' = current_file_pos + (now - last_update_time)
          /\ last_update_time' = now
     ELSE UNCHANGED <<current_file_pos, last_update_time>>
  /\ IF seek_offset # 0 /\ current_file.open
     THEN /\ current_file' = [current_file EXCEPT !.pos = SeekTarget(@, seek_offset)]
          /\ seek_owed' = seek_owed - seek_offset
          /\ display_pc' = "applied"
     ELSE UNCHANGED <<current_file, seek_owed, display_pc>>
  /\ lastOp' = [Op("update_position") EXCEPT !.arg = seek_offset, !.cur = current_file.pos]
  /\ UNCHANGED <<file_list, shuffle, played_indices, current_file_idx, current_file_path,
                 current_gain, temp_files, openLog, failed, open_handles, play_mode, paused, seek_offset,
                 repeat, dir_files, now, unpaused_time, workVars, running, input_pc>>

\* self.seek_offset = 0
UpdatePositionClear ==
  /\ display_pc = "applied"
  /\ seek_offset' = 0
  /\ display_pc' = "test"
  /\ UNCHANGED <<srcVars, play_mode, paused, current_file_pos, last_update_time, repeat,
                 dir_files, now, unpaused_time, workVars, lastOp, running, input_pc,
                 seek_owed>>

NextSeekRace ==
  \/ RaceSeekForward
  \/ RaceSeekBackward
  \/ UpdatePositionApply
  \/ UpdatePositionClear
  \/ TogglePause
  \/ \E dt \in ClockSteps : Tick(dt)

SpecSeekRace == InitSeekRace /\ [][NextSeekRace]_vars

\* next_track() on the input thread while work() advances on exhaustion, the
\* controller's next_file() taken in two steps: input_pc = "cleaned" is after
\* the cursor increment and _cleanup_old_temp() (line 959) and before
\* real_path = self.file_list[self.current_file_idx] (line 960).
InitAdvanceRace == InitOn({{3, 7, 14}}) /\ ~shuffle /\ repeat

AdvanceCleanup ==
  /\ input_pc = "test"
  /\ ~shuffle
  /\ LET i == SequentialIndex(current_file_idx, Len(file_list), repeat)
     IN /\ i < Len(file_list)
        /\ Install(CleanupOldTemp([Src EXCEPT !.idx = i]))
  /\ input_pc' = "cleaned"
  /\ lastOp' = Snap("next_track")
  /\ UNCHANGED <<ctlVars, repeat, dir_files, now, unpaused_time, workVars, running,
                 seek_owed, display_pc>>

\* the rest of open_current_file, then next_track clears the pending seek and
\* the elapsed time
AdvanceOpen ==
  /\ input_pc = "cleaned"
  /\ LET s == OpenStream([Src EXCEPT !.log = LogOff])
     IN /\ Install(s)
        /\ IF s.err = "none"
           THEN seek_offset' = 0 /\ current_file_pos' = 0
           ELSE UNCHANGED <<seek_offset, current_file_pos>>
  /\ input_pc' = "test"
  /\ UNCHANGED <<play_mode, paused, last_update_time, repeat, dir_files, now,
                 unpaused_time, workVars, lastOp, running, seek_owed, display_pc>>

NextAdvanceRace ==
  \/ Work
  \/ AdvanceCleanup
  \/ AdvanceOpen

SpecAdvanceRace == InitAdvanceRace /\ [][NextAdvanceRace]_vars

\* The three threads of the console program: the scheduler thread calls work(),
\* DisplayManager's input thread calls the controller on key presses and its
\* display thread calls update_position every second.  Nothing serialises them:
\* a controller method runs at any point between two rounds of the loop of a
\* work() call.  FM_console builds the source with repeat=True.
InitThreads == Init /\ file_list = <<1, 2>> /\ ~shuffle /\ repeat

\* _input_loop: one key press (the seek keys use the default of 10 seconds)
InputLoop ==
  /\ pc \in {"idle", "loop", "crashed"}
  /\ \/ toggle_pause
     \/ next_track
     \/ previous_track
     \/ seek_forward(10)
     \/ seek_backward(10)
     \/ \E key \in {"1", "2", "3"} : set_play_mode(key)
  /\ UNCHANGED dmVars

\* _display_loop: one iteration
DisplayLoop ==
  /\ pc \in {"idle", "loop", "crashed"}
  /\ update_position
  /\ UNCHANGED dmVars

NextThreads ==
  \/ Work
  \/ InputLoop
  \/ DisplayLoop
  \/ \E dt \in TickSteps : Tick(dt)

SpecThreads == InitThreads /\ [][NextThreads]_vars

\* ------------------------------------------------------------ DisplayManager
\* (mutant) a loop that does not look at the flag
WhileRunning_Forever(flag) == TRUE

\* while self.running:
WhileRunning(flag) == flag

\* DisplayManager.stop(), called from the main thread at any time
DisplayManagerStop ==
  /\ running
  /\ running' = FALSE
  /\ UNCHANGED <<srcVars, ctlVars, repeat, dir_files, now, unpaused_time, workVars,
                 lastOp, display_pc, input_pc, seek_owed>>

\* _display_loop, the loop test
DisplayTest ==
  /\ display_pc = "test"
  /\ display_pc' = (IF WhileRunning(running) THEN "body" ELSE "done")
  /\ UNCHANGED <<srcVars, ctlVars, repeat, dir_files, now, unpaused_time, workVars,
                 lastOp, running, seek_owed, input_pc>>

\* _display_loop, the try block up to time.sleep(1); the except branch sleeps too
DisplayBody ==
  /\ display_pc = "body"
  /\ update_position
  /\ display_pc' = "sleep"
  /\ UNCHANGED <<running, seek_owed, input_pc>>

\* _display_loop, time.sleep(1) returns
DisplaySleep ==
  /\ display_pc = "sleep"
  /\ display_pc' = "test"
  /\ UNCHANGED <<srcVars, ctlVars, repeat, dir_files, now, unpaused_time, workVars,
                 lastOp, running, seek_owed, input_pc>>

DisplayThread == DisplayTest \/ DisplayBody \/ DisplaySleep

\* _input_loop, the loop test
InputTest ==
  /\ input_pc = "test"
  /\ input_pc' = (IF WhileRunning(running) THEN "poll" ELSE "done")
  /\ UNCHANGED <<srcVars, ctlVars, repeat, dir_files, now, unpaused_time, workVars,
                 lastOp, running, seek_owed, display_pc>>

\* _input_loop, the try block: kbhit() is false or the key is bound to nothing
\* (the 0xe0 prefix of an arrow key decodes to the empty string, so the branch
\* that reads a second byte is not taken)
InputNoKey ==
  /\ input_pc = "poll"
  /\ input_pc' = "sleep"
  /\ UNCHANGED <<srcVars, ctlVars, repeat, dir_files, now, unpaused_time, workVars,
                 lastOp, running, seek_owed, display_pc>>

\* _input_loop, a key bound to a controller method; an exception of the
\* method is caught by the loop, which then skips the sleep
InputKey ==
  /\ input_pc = "poll"
  /\ \/ toggle_pause
     \/ next_track
     \/ previous_track
     \/ \E key \in {"1", "2", "3"} : set_play_mode(key)
  /\ input_pc' = (IF lastOp'.err = "none" THEN "sleep" ELSE "test")
  /\ UNCHANGED <<running, seek_owed, display_pc>>

\* _input_loop, the quit key: self.running = False; break
InputQuit ==
  /\ input_pc = "poll"
  /\ running' = FALSE
  /\ input_pc' = "done"
  /\ UNCHANGED <<srcVars, ctlVars, repeat, dir_files, now, unpaused_time, workVars,
                 lastOp, display_pc, seek_owed>>

\* _input_loop, time.sleep(0.1) returns
InputSleep ==
  /\ input_pc = "sleep"
  /\ input_pc' = "test"
  /\ UNCHANGED <<srcVars, ctlVars, repeat, dir_files, now, unpaused_time, workVars,
                 lastOp, running, seek_owed, display_pc>>

InputThread == InputTest \/ InputNoKey \/ InputKey \/ InputQuit \/ InputSleep

\* The two loops of DisplayManager next to a main thread that may call stop();
\* the second catalog has a file ffmpeg rejects, so that a key handler raises
InitLoops == Init /\ file_list \in {<<1, 2>>, <<2, 4>>} /\ ~shuffle /\ repeat

NextLoops ==
  \/ DisplayManagerStop
  \/ DisplayTest
  \/ DisplayBody
  \/ DisplaySleep
  \/ InputTest
  \/ InputNoKey
  \/ InputKey
  \/ InputQuit
  \/ InputSleep

SpecLoops == InitLoops /\ [][NextLoops]_vars

\* each of the two threads is scheduled again and again while it can run
SpecLoopsFair == SpecLoops /\ WF_vars(DisplayThread) /\ WF_vars(InputThread)


\* ================================================================== claims
NumTracks == Len(file_list)

AllZero(out) == \A i \in 1..Len(out) : out[i] = 0

\* the round of work() about to run finds the current track exhausted: the read
\* returns fewer whole frames than asked for
Exhausting ==
  /\ pc = "loop"
  /\ current_file.open
  /\ ~paused
  /\ LET to_read_frames == Min(n_out - produced, chunk_size)
     IN Len(ReadSamples(current_file, to_read_frames * 2)) \div 2 < to_read_frames

\* C1: a work() call that returns with the playlist not exhausted under a
\* non-repeating policy reports produced = n_out.
C1_ExactCount ==
  pc = "done" => (ret = n_out \/ (~current_file.open /\ ~repeat))

\* C2: a work() call made while paused returns a block of n_out frames that are
\* all zero on both channels, and moves neither the byte cursor nor the playlist
\* cursor.
C2_PausedSilence ==
  [][(pc = "loop" /\ paused /\ now' = now)
       => /\ pc' = "done"
          /\ Len(out_l') = n_out /\ Len(out_r') = n_out
          /\ AllZero(out_l') /\ AllZero(out_r')
          /\ current_file' = current_file
          /\ current_file_idx' = current_file_idx]_vars

C2_Witness ==
  /\ pc = "done" /\ paused /\ lastOp.op = "work"
  /\ current_file.open /\ current_file.pos > HeaderSize
  /\ n_out = MaxFrames /\ ret = 0
  /\ AllZero(out_l) /\ AllZero(out_r)

\* C3: played in order without repeat, exhausting the last track drains the
\* engine (no track open); from then on, with only work() acting, no track is
\* opened again and every call returns n_out frames of zeros.
C3_DrainedSilence ==
  [][/\ (Exhausting /\ ~shuffle /\ ~repeat /\ current_file_idx = NumTracks - 1
           /\ now' = now)
          => (~current_file'.open /\ pc' = "done")
     /\ (pc = "loop" /\ ~current_file.open /\ now' = now)
          => /\ pc' = "done"
             /\ Len(out_l') = n_out /\ Len(out_r') = n_out
             /\ AllZero(out_l') /\ AllZero(out_r')
     /\ (lastOp'.op = "work" /\ ~current_file.open) => ~current_file'.open]_vars

C3_Witness ==
  /\ pc = "done" /\ lastOp.op = "work"
  /\ ~shuffle /\ ~repeat /\ ~current_file.open
  /\ NumTracks >= 2 /\ current_file_idx = NumTracks
  /\ openLog.on /\ Len(openLog.seq) = NumTracks
  /\ n_out = MaxFrames /\ ret = 0
  /\ AllZero(out_l) /\ AllZero(out_r)

\* C4: played in order with repeat and no track or mode change by hand, the
\* k-th opened track (k = 0, 1, ...) is at playlist cursor k mod N, and a track
\* is always open.
C4_SequentialCycle ==
  (openLog.on /\ ~shuffle /\ repeat)
    => /\ current_file.open
       /\ \A k \in 1..Len(openLog.seq) : openLog.seq[k][1] = (k - 1) % NumTracks

C4_Witness ==
  /\ openLog.on /\ ~shuffle /\ repeat /\ lastOp.op = "work"
  /\ NumTracks = 3
  /\ Len(openLog.seq) = 4
  /\ current_file_idx = 0

\* C5: in shuffle mode the files opened within one pass (N successive opens,
\* the start-up open being the first of the first pass) are all different, and
\* without repeat the engine drains after exactly N opens.
C5_ShufflePass ==
  (openLog.on /\ shuffle)
    => /\ \A j, k \in 1..Len(openLog.seq) :
            (j < k /\ (j - 1) \div NumTracks = (k - 1) \div NumTracks)
              => openLog.seq[j][2] # openLog.seq[k][2]
       /\ (~repeat /\ ~current_file.open) => Len(openLog.seq) = NumTracks

\* C6: in REPEAT_ONE mode, when work() finds the track exhausted, the advance
\* (when it does not raise) re-opens the same track: the playlist cursor does
\* not move and the byte cursor is back at the header boundary.
C6_RepeatOneReopens ==
  [][(play_mode = "REPEAT_ONE" /\ Exhausting /\ now' = now /\ pc' # "crashed")
       => /\ current_file_idx' = current_file_idx
          /\ current_file'.open
          /\ current_file'.pos = HeaderSize]_vars

\* C7: previous_track() called within the first 3 seconds of track i, on a
\* running engine and without raising, leaves the engine streaming the file at
\* playlist cursor (i - 1) mod N.
C7_PreviousLands ==
  (/\ lastOp.op = "previous_track" /\ ~lastOp.late /\ lastOp.err = "none"
   /\ pc = "idle" /\ lastOp.idx \in 0..(NumTracks - 1))
    => /\ current_file.open
       /\ current_file_idx = (lastOp.idx + NumTracks - 1) % NumTracks
       /\ current_file.path.track = file_list[current_file_idx + 1]

\* C8: previous_track() called after more than 3 seconds on a running engine
\* restarts the current track: same playlist cursor, elapsed time and pending
\* seek 0, byte cursor at the header boundary.
C8_PreviousRestarts ==
  (lastOp.op = "previous_track" /\ lastOp.late /\ pc = "idle")
    => /\ current_file_idx = lastOp.idx
       /\ current_file_pos = 0
       /\ seek_offset = 0
       /\ current_file.open => current_file.pos = HeaderSize

\* C9: the byte cursor of the open track is never before the 44-byte header.
C9_CursorFloor == current_file.open => current_file.pos >= HeaderSize

C9_Witness ==
  /\ lastOp.op = "update_position"
  /\ lastOp.arg < 0
  /\ lastOp.cur > HeaderSize
  /\ lastOp.cur + lastOp.arg * bytes_per_second < HeaderSize
  /\ current_file.open
  /\ current_file.pos = HeaderSize

\* C10: the gain of the open track is in (0, 2.0], and it is exactly 1.0 when
\* the measured peak of its stream is 0.
C10_GainRange ==
  current_file.open
    => /\ current_gain.num > 0 /\ current_gain.den > 0
       /\ current_gain.num <= 2 * current_gain.den
       /\ WavMaxAbs(current_file.path) = 0 => current_gain.num = current_gain.den

C10_Witness ==
  /\ current_file.open
  /\ WavMaxAbs(current_file.path) = 0
  /\ current_gain.num = current_gain.den
  /\ openLog.on
  /\ \E k \in 1..Len(openLog.seq) :
       GainFor(WavMaxAbs(StreamPath(openLog.seq[k][2]))) = [num |-> 2, den |-> 1]

\* C11: between whole operations the scratch directory holds at most one temp
\* artifact, and when it holds one it is the file the open track streams from
\* (so the artifact of the previous track is gone after every track change).
C11_OneTempArtifact ==
  pc # "loop"
    => /\ Cardinality(temp_files) <= 1
       /\ temp_files # {} => (current_file.open /\ current_file.path \in temp_files)

\* C12: after stop() no track is open and the scratch directory is empty, stop()
\* does not raise, and a second stop() in a row changes nothing.
C12_StopIdempotentComplete ==
  [][lastOp'.op = "stop"
       => /\ ~current_file'.open
          /\ temp_files' = {}
          /\ lastOp'.err = "none"
          /\ lastOp.op = "stop" => UNCHANGED <<srcVars, ctlVars>>]_vars

\* C13: work() and the controller's operations exclude each other: while a
\* work() call is in progress, no controller operation acts.
C13_MutualExclusion == pc = "loop" => lastOp.op = "work"

\* C14: once ffmpeg has exited non-zero for a track being opened (inside work()
\* or under next_track()/previous_track()), the engine is halted: no later
\* round of work() streams frames.
C14_TranscodeFailureHalts == [][failed => produced' <= produced]_vars

\* C15: set_play_mode to SHUFFLE, on an engine constructed in any mode, leaves
\* the played-index set existing and empty, and the track advances made in
\* shuffle mode do not fail on it.
C15_ShuffleModeResets ==
  [][/\ (lastOp'.op = "set_play_mode" /\ shuffle')
          => (played_indices'.defined /\ played_indices'.set = {})
     /\ shuffle' => lastOp'.err # "attr"]_vars

\* C16: next_track() that does not raise leaves elapsed time and pending seek
\* at 0, however far the track had been read; played in order with repeat from
\* cursor i it leaves the file at cursor (i + 1) mod N open with its byte cursor
\* at the header boundary.
C16_NextTrackAdvances ==
  (lastOp.op = "next_track" /\ lastOp.err = "none")
    => /\ current_file_pos = 0
       /\ seek_offset = 0
       /\ (/\ ~shuffle /\ play_mode = "SEQUENTIAL" /\ repeat
           /\ lastOp.idx \in 0..(NumTracks - 1))
            => /\ current_file_idx = (lastOp.idx + 1) % NumTracks
               /\ current_file.open
               /\ current_file.pos = HeaderSize
               /\ current_file.path = StreamPath(file_list[current_file_idx + 1])

C16_Witness ==
  /\ lastOp.op = "next_track" /\ lastOp.err = "none"
  /\ lastOp.cur > HeaderSize /\ lastOp.arg # 0 /\ lastOp.late
  /\ ~shuffle /\ play_mode = "SEQUENTIAL" /\ repeat
  /\ lastOp.idx = NumTracks - 1 /\ current_file_idx = 0
  /\ current_file.open /\ current_file.pos = HeaderSize
  /\ current_file_pos = 0 /\ seek_offset = 0

\* C17: the elapsed time of the controller never exceeds the wall-clock time
\* spent not paused, and equals it when update_position has just run unpaused.
C17_ElapsedIsUnpausedTime ==
  /\ current_file_pos <= unpaused_time
  /\ (~paused /\ last_update_time = now) => current_file_pos = unpaused_time

C19_SeekAccumulates ==
  [][/\ (lastOp'.op = "seek_forward" /\ now' = now)
          => seek_offset' = seek_offset + lastOp'.arg
     /\ (lastOp'.op = "seek_backward" /\ now' = now)
          => seek_offset' = Max(seek_offset - lastOp'.arg, -current_file_pos)]_vars

\* the files of the directory whose extension, whatever its case, is on the
\* allow-list
AllowListed == {t \in dir_files :
                  Library[t].ext \in {"wav", "WAV", "mp3", "flac", "ogg", "Ogg"}}

C21_EnumerationDeterministic ==
  (lastOp.op = "init" /\ lastOp.err # "empty" /\ ~shuffle)
    => file_list = FindAudioFiles(dir_files, <<0>> \o SortedSeq(SubDirs(dir_files)))

C23_NoBoostGain ==
  (/\ current_file.open
   /\ \/ PathHdr(current_file.path) = <<>>
      \/ PathHdr(current_file.path)[3] # 2)
    => current_gain.num = current_gain.den

\* C24: when repositioning the open file fails inside update_position(),
\* nothing is raised, the byte cursor of the open track and the playlist cursor
\* are what they were, and the pending seek is still pending.
C24_FailedSeekKept ==
  [][(lastOp'.op = "update_position" /\ lastOp'.io = "failed")
       => /\ lastOp'.err = "none"
          /\ current_file' = current_file
          /\ current_file_idx' = current_file_idx
          /\ seek_offset' = seek_offset
          /\ seek_offset' # 0]_vars

C24_Witness ==
  /\ lastOp.op = "update_position"
  /\ lastOp.io = "failed"
  /\ lastOp.arg = 10
  /\ seek_offset = 10
  /\ current_file.open
  /\ current_file.pos = lastOp.cur

\* C25: once the running flag is false (DisplayManager.stop() or the quit
\* key), the display loop and the input loop both end, when each of the two
\* threads keeps being scheduled.
C25_LoopsTerminate == ~running ~> (display_pc = "done" /\ input_pc = "done")

C25_Witness ==
  /\ ~running
  /\ display_pc = "done"
  /\ input_pc = "done"
  /\ lastOp.op = "next_track"

\* whole frames of the open track behind its byte cursor
FramesRead == (current_file.pos - HeaderSize) \div 4

\* frame i (from 1) of a stream, channel ch, under gain g
ScaledFrame(p, i, g, ch) == ApplyGain(PathPayload(p)[2 * (i - 1) + ch], g)

\* the catalog entry before the cursor, cyclically
PrecedingTrack == file_list[((current_file_idx + NumTracks - 1) % NumTracks) + 1]

\* C26: in a work() call of a sequential engine, the frames written so far are
\* in read order and contiguous up to the write position: the last of them are
\* the frames of the open track behind its cursor under that track's gain; when
\* the call has written more frames than that, the open track was started
\* inside the call, its first frame follows directly (no zero in between) the
\* last whole frames of the preceding track under that track's gain.
C26_SpliceWithinCall ==
  (pc \in {"loop", "done"} /\ current_file.open /\ current_file_idx < NumTracks)
    => LET c == FramesRead
           r == produced - c
           p == StreamPath(PrecedingTrack)
           pn == Len(PathPayload(p)) \div 2
           pg == GainFor(WavMaxAbs(p))
       IN /\ \A j \in 1..Min(produced, c) :
               /\ out_l[produced - j + 1]
                    = ScaledFrame(current_file.path, c - j + 1, current_gain, 1)
               /\ out_r[produced - j + 1]
                    = ScaledFrame(current_file.path, c - j + 1, current_gain, 2)
          /\ \A j \in 1..Min(r, pn) :
               /\ out_l[r - j + 1] = ScaledFrame(p, pn - j + 1, pg, 1)
               /\ out_r[r - j + 1] = ScaledFrame(p, pn - j + 1, pg, 2)

C26_Witness ==
  /\ pc = "done"
  /\ ret = 3
  /\ file_list = <<1, 2>>
  /\ current_file_idx = 1
  /\ FramesRead = 1
  /\ out_l = <<ScaledFrame(OrigPath(1), 1, GainFor(WavMaxAbs(OrigPath(1))), 1),
               ScaledFrame(OrigPath(1), 2, GainFor(WavMaxAbs(OrigPath(1))), 1),
               ScaledFrame(TempPath(2), 1, GainFor(WavMaxAbs(TempPath(2))), 1)>>
  /\ out_l = <<980, 32111, 200>>
  /\ out_r = <<-1960, -32112, -600>>

\* the largest |s| over the samples of a payload, as an integer
RECURSIVE MaxMagnitude(_)
MaxMagnitude(ss) ==
  IF ss = <<>> THEN 0
  ELSE Max(IF Head(ss) < 0 THEN -Head(ss) ELSE Head(ss), MaxMagnitude(Tail(ss)))

\* C27: for the 16-bit stream of the open track, the peak the gain analysis
\* computes is the largest |s| over all its samples, also when the payload
\* holds the sample -32768.
C27_PeakIsMaxMagnitude ==
  (/\ current_file.open
   /\ PathHdr(current_file.path) # <<>>
   /\ PathHdr(current_file.path)[3] = 2)
    => WavMaxAbs(current_file.path) = MaxMagnitude(PathPayload(current_file.path))

\* C28: every sample work() has written to either output lies in
\* -32767..32767, whatever the input sample (-32768 included) and the gain of
\* the track: -32768 is never emitted and nothing wraps.
C28_OutputRange ==
  pc \in {"loop", "done"}
    => \A i \in 1..produced :
         /\ out_l[i] \in (-FullScale)..FullScale
         /\ out_r[i] \in (-FullScale)..FullScale

C28_Witness ==
  /\ pc = "done"
  /\ file_list = <<16>>
  /\ current_gain = [num |-> 2, den |-> 1]
  /\ produced >= 1
  /\ out_l[1] = 100
  /\ out_r[1] = -FullScale

\* C29: every next_track() in Shuffle mode that does not end the playlist
\* selects an index that is not in the played-index set at the moment of
\* selection (the set as it is after the clearing of a full set) and adds it;
\* the played-index set holds only indices of the catalog, and an index leaves
\* it only when it held all of them.
C29_ShuffleSelection ==
  [][LET full == Cardinality(played_indices.set) >= NumTracks
         before == IF full THEN {} ELSE played_indices.set
     IN /\ (/\ shuffle
            /\ lastOp'.op = "next_track"
            /\ now' = now
            /\ ~(full /\ played_indices.defined /\ ~repeat))
             => /\ played_indices'.defined
                /\ current_file_idx' \in (0..(NumTracks - 1)) \ before
                /\ played_indices'.set = before \cup {current_file_idx'}
        /\ played_indices'.set \subseteq 0..(NumTracks - 1)
        /\ ~(played_indices.set \subseteq played_indices'.set)
             => played_indices.set = 0..(NumTracks - 1)]_vars

\* C30: every work() call that has been entered returns (or raises), for every
\* catalog and block length, also with repeat on and no frame in any track.
C30_WorkTerminates == (pc = "loop") ~> (pc \in {"done", "crashed"})

\* C31: a track opened by next_track() is installed atomically with respect to
\* work(): whenever a round of work() writes frames, it read them at a byte
\* cursor of at least 44 and scaled them by the gain of the track it read.
C31_AtomicInstall ==
  [][(pc = "loop" /\ produced' > produced)
       => /\ current_file.pos >= HeaderSize
          /\ current_gain = GainFor(WavMaxAbs(current_file.path))]_vars

C33_OneArtifactAfterRace ==
  input_pc = "test"
    => /\ Cardinality(temp_files) <= 1
       /\ \A p \in temp_files : current_file.open /\ current_file.path = p
       /\ (current_file.open /\ current_file.path.kind = "temp")
            => current_file.path \in temp_files

\* C34: in every reachable state in which a track is open, also after a track
\* advance that failed, the playlist cursor is within 0..N-1 and the open file
\* is the stream of the catalog entry at the cursor.
C34_CursorNamesOpenTrack ==
  current_file.open
    => /\ current_file_idx \in 0..(Len(file_list) - 1)
       /\ current_file.path = StreamPath(file_list[current_file_idx + 1])

\* C35: in every reachable state the mode the controller holds is the policy
\* the track advance applies: play_mode is SHUFFLE exactly when the source
\* advances by shuffle, from start-up on and after every set_play_mode.
C35_ModeIsPolicy == (play_mode = "SHUFFLE") <=> shuffle

C37_ElapsedRestartsOnAdvance ==
  [][(/\ Exhausting /\ now' = now
      /\ pc' # "crashed"
      /\ current_file'.open /\ current_file_idx' # current_file_idx)
       => current_file_pos' = 0]_vars

\* C38: consuming a pending seek preserves the reported position: an
\* update_position() that applies the pending seek to the byte cursor leaves
\* elapsed time plus pending seek where it was, apart from the wall-clock time
\* that call integrates.
C38_SeekKeepsReportedPosition ==
  [][(/\ lastOp'.op = "update_position" /\ now' = now
      /\ seek_offset # 0 /\ seek_offset' = 0 /\ current_file.open)
       => ReportedPosition(current_file_pos', seek_offset')
            = ReportedPosition(current_file_pos, seek_offset)
                + (IF paused THEN 0 ELSE now - last_update_time)]_vars

\* the playlist has been exhausted under a non-repeating policy: no track is
\* open and the source does not repeat
DrainedNonRepeat == ~repeat /\ ~current_file.open /\ pc \notin {"new", "failed"}

\* C39: once the engine is drained under a non-repeating policy it stays
\* drained: no operation of the controller re-opens a track (so every later
\* work() call finds no track and returns zero frames).
C39_DrainedStays == [][DrainedNonRepeat => DrainedNonRepeat']_vars

====
